---- MODULE Spec2Model ----
(***************************************************************************)
(* EventEmitter (src/event-emitter.js): a registry from event names to     *)
(* ordered arrays of subscriptions, with on / once / off / emit.           *)
(*                                                                         *)
(* JavaScript values are modelled as strings ("undefined", "null", the     *)
(* function objects "f" and "g", the context object "o").  A stored        *)
(* handler is a record: w = 0 for a value the caller passed, w = i for the *)
(* onceHandler wrapper created by the i-th registration (v is the value    *)
(* tagged on it under ORIGINAL_SYMBOL, c the context once() was given).    *)
(* Every subscription object carries the number of the registration that   *)
(* created it (id): its object identity.                                   *)
(*                                                                         *)
(* Control is either with the outside caller (stack = <<>>) or with the    *)
(* handler that the innermost running emit is currently calling (the top   *)
(* frame of stack).  Whoever has control may call on, once, off, emit or a *)
(* token; a running handler may also return or throw.                      *)
(***************************************************************************)
EXTENDS Naturals, Sequences, FiniteSets

VARIABLES registry, tokens, stack, calls

vars == <<registry, tokens, stack, calls>>

\* ----------------------------------------------------------------- bounds
\* Registrations (on + once calls) made in one run.
MaxRegs == 3
\* Nesting depth of emit calls (an emit made by a handler of a running emit).
MaxDepth == 2
\* Calls of on, once, off, emit or a token that handlers make while one
\* outermost emit is running.
MaxCalls == 2

\* ----------------------------------------------------------------- values
Undefined == "undefined"
Null == "null"

\* Event names: an ordinary one, and one that Object.prototype also defines.
Names == {"change", "toString"}
\* Members the registry object literal inherits from Object.prototype.
Inherited == {"toString"}
\* Function objects a caller may pass as handler.
Functions == {"f", "g"}
\* Handler arguments: a function, or none (a non-callable value).
HandlerValues == Functions \cup {Undefined}
\* Context arguments: omitted, or an object.
ContextValues == {Undefined, "o"}
\* The (name, handler, context) triples that on and once are called with: two
\* functions, with and without a context object, a missing handler, and the
\* inherited name.
Registrations ==
    { <<"change", "f", Undefined>>, <<"change", "f", "o">>,
      <<"change", "g", Undefined>>, <<"change", Undefined, Undefined>>,
      <<"toString", "f", Undefined>> }
\* Argument lists given to emit.
ArgLists == {<<>>, <<"x", "y">>}

Nullish(v) == v \in {Undefined, Null}

\* JavaScript's == on the modelled values: null and undefined are equal to
\* each other, objects and functions are equal to themselves only.
LooseEq(a, b) == a = b \/ (Nullish(a) /\ Nullish(b))

\* A default parameter (context = null): undefined becomes null.
DefaultNull(c) == IF c = Undefined THEN Null ELSE c

\* A handler value as the caller passed it.
Plain(v) == [w |-> 0, v |-> v, c |-> Undefined]
\* The onceHandler closure of registration i, tagged with the original.
Wrapper(i, v, c) == [w |-> i, v |-> v, c |-> c]

\* == on two handler values: a wrapper is a function object of its own.
HandlerEq(a, b) ==
    IF a.w # 0 \/ b.w # 0 THEN a = b ELSE LooseEq(a.v, b.v)

\* x.call exists: x is a function.
Callable(v) == v \in Functions

Min(S) == CHOOSE x \in S : \A y \in S : x <= y

RemoveAt(s, i) == SubSeq(s, 1, i - 1) \o SubSeq(s, i + 1, Len(s))

Ids(s) == {s[i].id : i \in DOMAIN s}

AllIds(reg) == UNION {Ids(reg[n]) : n \in DOMAIN reg}

EmptyRegistry == [n \in {} |-> <<>>]

SetKey(reg, n, subs) ==
    [k \in DOMAIN reg \cup {n} |-> IF k = n THEN subs ELSE reg[k]]

DeleteKey(reg, n) == [k \in DOMAIN reg \ {n} |-> reg[k]]

\* this[SUBSCRIPTIONS_SYMBOL][name]: an own key holds an array; a name that is
\* no own key is looked up on Object.prototype.
Lookup(reg, n) ==
    IF n \in DOMAIN reg THEN "array"
    ELSE IF n \in Inherited THEN "function"
    ELSE "undefined"

\* ------------------------------------------------------------------- off
\* matchesSubscription: "yes", "no", or "throw" (reading ORIGINAL_SYMBOL of a
\* null or undefined stored handler is a TypeError).  Both comparisons are
\* made; the || short-circuits.
matchesSubscription(sub, handler, context) ==
    LET matchesContext == LooseEq(sub.context, context)
        h == sub.handler
    IN  IF HandlerEq(h, handler)
        THEN IF matchesContext THEN "yes" ELSE "no"
        ELSE IF h.w = 0 /\ Nullish(h.v) THEN "throw"
        ELSE IF h.w # 0 /\ HandlerEq(Plain(h.v), handler) /\ matchesContext
                THEN "yes"
        ELSE IF h.w = 0 /\ HandlerEq(Plain(Undefined), handler) /\ matchesContext
                THEN "yes"
        ELSE "no"

Max(S) == CHOOSE x \in S : \A y \in S : x >= y

\* FindFirst searching from the end of the array: the last match.
FindLast(subs, handler, context) ==
    LET hits == {i \in DOMAIN subs :
                    matchesSubscription(subs[i], handler, context) # "no"}
    IN  IF hits = {} THEN 0 ELSE Max(hits)

\* subscriptions.find(matchesSubscription): the first index whose test does
\* not answer "no" (0 when there is none).
FindFirst(subs, handler, context) ==
    LET hits == {i \in DOMAIN subs :
                    matchesSubscription(subs[i], handler, context) # "no"}
    IN  IF hits = {} THEN 0 ELSE Min(hits)

\* offResult without the final delete: an emptied array stays under its key.
offKeepsKey(reg, name, handler, ctx) ==
    LET context == DefaultNull(ctx)
        subscriptions == IF name \in DOMAIN reg THEN reg[name] ELSE <<>>
        index == FindFirst(subscriptions, handler, context)
        threw == Lookup(reg, name) = "function"
                 \/ (index # 0 /\ matchesSubscription(subscriptions[index],
                                         handler, context) = "throw")
    IN  IF threw THEN [registry |-> reg, err |-> TRUE, rem |-> 0]
        ELSE IF index = 0 THEN [registry |-> reg, err |-> FALSE, rem |-> 0]
        ELSE [registry |-> SetKey(reg, name, RemoveAt(subscriptions, index)),
              err |-> FALSE, rem |-> subscriptions[index].id]

\* The body of off(name, handler, context) on registry reg:
\* err: the call raised a TypeError; rem: id of the subscription removed.
offResult(reg, name, handler, ctx) ==
    LET context == DefaultNull(ctx)
        subscriptions == IF name \in DOMAIN reg THEN reg[name] ELSE <<>>
        index == FindFirst(subscriptions, handler, context)
        threw == Lookup(reg, name) = "function"
                 \/ (index # 0 /\ matchesSubscription(subscriptions[index],
                                         handler, context) = "throw")
        spliced == IF index # 0 THEN RemoveAt(subscriptions, index)
                   ELSE subscriptions
    IN  IF threw THEN [registry |-> reg, err |-> TRUE, rem |-> 0]
        ELSE [registry |-> IF Len(spliced) = 0 THEN DeleteKey(reg, name)
                           ELSE SetKey(reg, name, spliced),
              err |-> FALSE,
              rem |-> IF index # 0 THEN subscriptions[index].id ELSE 0]

\* ------------------------------------------------------------------ emit
\* A running emit: name, args, the array length forEach read at its start
\* (len), the index being visited (k, from 0), whether the array it iterates
\* is still the one stored under name (att: off deletes the key of an emptied
\* array, and a later on creates another array), and for the record: the ids
\* in the array at the start (snap), the ids whose stored handler was called
\* (inv), the call in progress (cur), and whether a handler of this dispatch
\* called on, once, off, emit or a token (dirty).
NewFrame(reg, n, args) ==
    LET subs == IF n \in DOMAIN reg THEN reg[n] ELSE <<>>
    IN  [name |-> n, args |-> args, len |-> Len(subs), k |-> 0, att |-> TRUE,
         snap |-> [i \in DOMAIN subs |-> subs[i].id], inv |-> <<>>,
         cur |-> <<>>, dirty |-> FALSE]

\* subscription.handler.call(subscription.context, ...args) for a handler the
\* caller passed.
CallPlain(reg, f, sub) ==
    IF Callable(sub.handler.v)
    THEN [outcome |-> "running", registry |-> reg, rem |-> 0,
          frame |-> [f EXCEPT !.inv = Append(@, sub.id),
                              !.cur = <<[sub |-> sub, fn |-> sub.handler.v,
                                         this |-> sub.context,
                                         args |-> f.args]>>]]
    ELSE [outcome |-> "error", registry |-> reg, rem |-> 0, frame |-> f]

\* onceHandler without its off() call: the wrapper stays registered.
onceHandlerKeeps(reg, f, sub) ==
    LET g == [f EXCEPT !.inv = Append(@, sub.id)]
    IN  IF Callable(sub.handler.v)
        THEN [outcome |-> "running", registry |-> reg, rem |-> 0,
              frame |-> [g EXCEPT !.cur = <<[sub |-> sub, fn |-> sub.handler.v,
                                             this |-> sub.handler.c,
                                             args |-> f.args]>>]]
        ELSE [outcome |-> "error", registry |-> reg, rem |-> 0, frame |-> g]

\* onceHandler(...args): off(), then handler.call(context, ...args) with the
\* handler and context once() was given.
onceHandler(reg, f, sub) ==
    LET r == offResult(reg, f.name, sub.handler, sub.context)
        g == [f EXCEPT !.inv = Append(@, sub.id)]
    IN  IF r.err
        THEN [outcome |-> "error", registry |-> reg, rem |-> 0, frame |-> g]
        ELSE IF Callable(sub.handler.v)
        THEN [outcome |-> "running", registry |-> r.registry, rem |-> r.rem,
              frame |-> [g EXCEPT !.cur = <<[sub |-> sub, fn |-> sub.handler.v,
                                             this |-> sub.handler.c,
                                             args |-> f.args]>>]]
        ELSE [outcome |-> "error", registry |-> r.registry, rem |-> r.rem,
              frame |-> g]

\* forEach reading the array's length at every step instead of once at its
\* start.
forEachLive(reg, f) ==
    IF f.att /\ f.name \in DOMAIN reg /\ f.k < Len(reg[f.name])
    THEN LET sub == reg[f.name][f.k + 1]
         IN  IF sub.handler.w # 0 THEN onceHandler(reg, f, sub)
             ELSE CallPlain(reg, f, sub)
    ELSE [outcome |-> "done", registry |-> reg, rem |-> 0, frame |-> f]

\* forEach from index f.k: the next call it makes, or its end.  An index is
\* visited when it is below the length read at the start and still in the
\* array.
forEach(reg, f) ==
    IF f.k < f.len /\ f.att /\ f.name \in DOMAIN reg /\ f.k < Len(reg[f.name])
    THEN LET sub == reg[f.name][f.k + 1]
         IN  IF sub.handler.w # 0 THEN onceHandler(reg, f, sub)
             ELSE CallPlain(reg, f, sub)
    ELSE [outcome |-> "done", registry |-> reg, rem |-> 0, frame |-> f]

\* Frames whose array was emptied and dropped from the registry iterate an
\* array no later on() can reach.
Detach(stk, reg) ==
    [i \in DOMAIN stk |-> [stk[i] EXCEPT !.att = @ /\ stk[i].name \in DOMAIN reg]]

\* An API call made by a running handler marks every dispatch in progress.
MarkDirty(stk) == [i \in DOMAIN stk |-> [stk[i] EXCEPT !.dirty = TRUE]]

\* A call made by whoever has control: a running handler's calls are counted.
MayCall == stack = <<>> \/ calls < MaxCalls

Called == IF stack = <<>> THEN 0 ELSE calls + 1

\* ------------------------------------------------------------------ state
Init ==
    /\ registry = EmptyRegistry
    /\ tokens = <<>>
    /\ stack = <<>>
    /\ calls = 0

\* Push with unshift in place of push: the new subscription goes first.
PushFront(reg, n, sub) ==
    SetKey(reg, n, <<sub>> \o (IF n \in DOMAIN reg THEN reg[n] ELSE <<>>))

\* registry[name] = Array.isArray(registry[name]) ? registry[name] : [];
\* registry[name].push({ context, handler })
Push(reg, n, sub) ==
    SetKey(reg, n, Append(IF n \in DOMAIN reg THEN reg[n] ELSE <<>>, sub))

on(n, h, c) ==
    /\ MayCall
    /\ Len(tokens) < MaxRegs
    /\ LET i == Len(tokens) + 1
           context == DefaultNull(c)
       IN  /\ registry' = Push(registry, n,
                               [context |-> context, handler |-> Plain(h), id |-> i])
           /\ tokens' = Append(tokens, [name |-> n, handler |-> Plain(h),
                                        context |-> context])
    /\ stack' = MarkDirty(stack)
    /\ calls' = Called

once(n, h, c) ==
    /\ MayCall
    /\ Len(tokens) < MaxRegs
    /\ LET i == Len(tokens) + 1
           context == DefaultNull(c)
       IN  /\ registry' = Push(registry, n,
                               [context |-> context, handler |-> Wrapper(i, h, c),
                                id |-> i])
           /\ tokens' = Append(tokens, [name |-> n, handler |-> Wrapper(i, h, c),
                                        context |-> context])
    /\ stack' = MarkDirty(stack)
    /\ calls' = Called

off(n, h, c) ==
    /\ MayCall
    /\ LET r == offResult(registry, n, Plain(h), c)
       IN  /\ registry' = r.registry
           /\ stack' = Detach(MarkDirty(stack), r.registry)
    /\ calls' = Called
    /\ UNCHANGED tokens

\* The function on() and once() return: off bound to the subscription's name,
\* stored handler and context.
token(i) ==
    /\ MayCall
    /\ i \in DOMAIN tokens
    /\ LET t == tokens[i]
           r == offResult(registry, t.name, t.handler, t.context)
       IN  /\ registry' = r.registry
           /\ stack' = Detach(MarkDirty(stack), r.registry)
    /\ calls' = Called
    /\ UNCHANGED tokens

\* The effect of forEach going on from frame f, over the frames below it.
Continue(below, op, f) ==
    LET d == forEach(registry, f)
        stk == IF d.outcome = "running"
               THEN Detach(Append(below, d.frame), d.registry)
               ELSE Detach(below, d.registry)
    IN  /\ registry' = d.registry
        /\ stack' = stk
        /\ calls' = IF stk = <<>> THEN 0 ELSE IF op = "emit" THEN Called ELSE calls
        /\ UNCHANGED tokens

emit(n, args) ==
    /\ MayCall
    /\ Len(stack) < MaxDepth
    /\ IF Lookup(registry, n) = "function"
       THEN /\ stack' = MarkDirty(stack)
            /\ calls' = Called
            /\ UNCHANGED <<registry, tokens>>
       ELSE Continue(MarkDirty(stack), "emit", NewFrame(registry, n, args))

\* The running handler returns: forEach goes on with the next index.
return ==
    /\ stack # <<>>
    /\ LET f == stack[Len(stack)]
       IN  Continue(SubSeq(stack, 1, Len(stack) - 1), "return",
                    [f EXCEPT !.k = @ + 1, !.cur = <<>>])

\* The running handler raises: forEach and emit are left, the error reaches
\* the caller of emit.
throw ==
    /\ stack # <<>>
    /\ stack' = SubSeq(stack, 1, Len(stack) - 1)
    /\ calls' = IF Len(stack) = 1 THEN 0 ELSE calls
    /\ UNCHANGED <<registry, tokens>>

Next ==
    \/ \E r \in Registrations : on(r[1], r[2], r[3])
    \/ \E r \in Registrations : once(r[1], r[2], r[3])
    \/ \E n \in Names, h \in HandlerValues, c \in ContextValues : off(n, h, c)
    \/ \E i \in 1..MaxRegs : token(i)
    \/ \E n \in Names, args \in ArgLists : emit(n, args)
    \/ return
    \/ throw

Spec == Init /\ [][Next]_vars

\* ================================================================ claims
Range(s) == {s[i] : i \in DOMAIN s}

Count(s, x) == Cardinality({i \in DOMAIN s : s[i] = x})

Subs(reg, n) == IF n \in DOMAIN reg THEN reg[n] ELSE <<>>

IdSeq(subs) == [i \in DOMAIN subs |-> subs[i].id]

Increasing(s) == \A i, j \in DOMAIN s : i < j => s[i] < s[j]

\* Registration i was made with once.
IsOnce(i) == tokens[i].handler.w # 0

\* The subscriptions of a registry without their ids: what a program can
\* observe of it (a wrapper keeps its identity).
Content(reg) ==
    [n \in DOMAIN reg |->
        [k \in DOMAIN reg[n] |->
            [context |-> reg[n][k].context, handler |-> reg[n][k].handler]]]

\* The registry with the subscription created by registration i deleted.
WithoutId(reg, i) ==
    LET n == tokens[i].name
        subs == Subs(reg, n)
        at == {k \in DOMAIN subs : subs[k].id = i}
    IN  IF at = {} THEN reg
        ELSE IF Len(subs) = 1 THEN DeleteKey(reg, n)
        ELSE SetKey(reg, n, RemoveAt(subs, Min(at)))

\* The step is the return of the handler that frame f is calling, and forEach
\* finds nothing more to call: the emit call of f returns to its caller.
EmitReturns(f) ==
    /\ return
    /\ forEach(registry, [f EXCEPT !.k = @ + 1, !.cur = <<>>]).outcome = "done"

\* The subscriptions of f's snapshot other than id were registered with
\* another handler or another context.
AloneInSnapshot(f, id) ==
    \A j \in Range(f.snap) :
        j # id => ~(/\ tokens[j].handler.v = tokens[id].handler.v
                    /\ tokens[j].context = tokens[id].context)

\* Registration i's subscription is in the registry, and no other subscription
\* of its name was registered with the same handler and context.
AloneInRegistry(i) ==
    LET subs == Subs(registry, tokens[i].name)
    IN  /\ i \in Ids(subs)
        /\ \A k \in DOMAIN subs :
              subs[k].id # i => ~(/\ subs[k].handler.v = tokens[i].handler.v
                                  /\ subs[k].context = tokens[i].context)

\* Every handler stored in the registry is a function.
FunctionsOnly ==
    \A n \in DOMAIN registry : \A k \in DOMAIN registry[n] :
        Callable(registry[n][k].handler.v)

\* C1: an emit(name) call whose handlers call none of on, off, once, emit
\* invokes every subscription that was in name's sequence when it started
\* exactly once, whether added by on or by once.
C1_EmitInvokesEverySubscriptionOnce ==
    [][stack # <<>> =>
        LET f == stack[Len(stack)]
        IN  (EmitReturns(f) /\ ~f.dirty) =>
                \A id \in Range(f.snap) : Count(f.inv, id) = 1]_vars

\* C2: within one emit call handlers are invoked in the order of their on/once
\* calls (ids number the registrations in call order); a name's sequence holds
\* its subscriptions in registration order, a once registration in the slot it
\* was registered at, whatever was removed.
C2_DispatchInRegistrationOrder ==
    /\ \A n \in DOMAIN registry : Increasing(IdSeq(registry[n]))
    /\ \A i \in DOMAIN stack : Increasing(stack[i].inv)

\* C2 witness: an emit has invoked the first and the third registration, the
\* third a once registration, after the second was removed.
C2_Witness ==
    /\ Len(tokens) = 3
    /\ IsOnce(3)
    /\ \E i \in DOMAIN stack : stack[i].snap = <<1, 3>> /\ stack[i].inv = <<1, 3>>

\* C3: every handler invocation made by emit passes the argument list of that
\* emit call unchanged and uses as receiver the context stored with the
\* subscription.
C3_ArgsAndReceiverForwarded ==
    \A i \in DOMAIN stack :
        stack[i].cur # <<>> =>
            /\ stack[i].cur[1].args = stack[i].args
            /\ stack[i].cur[1].this = stack[i].cur[1].sub.context

\* C4: a once registration that is in name's sequence when an emit(name)
\* starts is invoked by that emit (the first that follows its registration)
\* and is no longer registered afterwards, so that no later emit invokes it.
C4_OnceFiresOnFirstEmitOnly ==
    [][stack # <<>> =>
        LET f == stack[Len(stack)]
        IN  (EmitReturns(f) /\ ~f.dirty) =>
                \A id \in Range(f.snap) :
                    IsOnce(id) => /\ id \in Range(f.inv)
                                  /\ id \notin AllIds(registry')]_vars

\* C5: for a (name, handler, context) registered exactly once, with on, every
\* emit(name) made before its token is invoked calls the handler once; after
\* the token was invoked the subscription is gone (here: in registries that
\* hold functions only).
C5_OnFiresUntilTokenInvoked ==
    [][/\ stack # <<>> =>
            LET f == stack[Len(stack)]
            IN  (EmitReturns(f) /\ ~f.dirty) =>
                    \A id \in Range(f.snap) :
                        (~IsOnce(id) /\ AloneInSnapshot(f, id)) =>
                            Count(f.inv, id) = 1
       /\ \A i \in DOMAIN tokens :
            (token(i) /\ ~IsOnce(i) /\ AloneInRegistry(i) /\ FunctionsOnly) =>
                i \notin AllIds(registry')]_vars

\* What off(n, h, c) does to the registry: nothing, or it deletes from n's
\* sequence the first subscription that matchesSubscription accepts, leaving
\* the others as they were; if one is accepted and no error is raised, it is
\* deleted.
RemovesFirstMatchOnly(n, h, c) ==
    LET after == offResult(registry, n, h, c).registry
        old == Subs(registry, n)
        new == Subs(after, n)
        yes == {i \in DOMAIN old :
                    matchesSubscription(old[i], h, DefaultNull(c)) = "yes"}
        throws == {i \in DOMAIN old :
                    matchesSubscription(old[i], h, DefaultNull(c)) = "throw"}
    IN  /\ \A m \in Names \ {n} : Subs(after, m) = Subs(registry, m)
        /\ \/ new = old
           \/ \E i \in yes :
                /\ \A j \in yes : i <= j
                /\ new = [k \in 1..(Len(old) - 1) |->
                            IF k < i THEN old[k] ELSE old[k + 1]]
        /\ (yes # {} /\ throws = {}) => Len(new) = Len(old) - 1

\* C6: off(name, handler, context), called directly or through a token, in
\* any state the registry can reach, removes at most one subscription: the
\* first match in sequence order; every other subscription stays, in its
\* previous relative order.
C6_OffRemovesFirstMatchOnly ==
    /\ \A n \in Names, h \in HandlerValues, c \in ContextValues :
            RemovesFirstMatchOnly(n, Plain(h), c)
    /\ \A i \in DOMAIN tokens :
            RemovesFirstMatchOnly(tokens[i].name, tokens[i].handler,
                                  tokens[i].context)

\* C6 witness: registrations 1 and 2 were made with on, with the same name,
\* handler and context; the first was removed, and the second and the third
\* are still in the sequence, in order.
C6_Witness ==
    /\ Len(tokens) = 3
    /\ tokens[1] = tokens[2]
    /\ ~IsOnce(1)
    /\ IdSeq(Subs(registry, tokens[1].name)) = <<2, 3>>

\* C7: after once(name, handler, context), off(name, handler, context) with
\* the original handler, called before the registration fired, removes the
\* once-wrapped subscription (here: the original is a function, and no other
\* subscription of the name was registered with that handler and context).
C7_OffWithOriginalRemovesOnce ==
    \A n \in DOMAIN registry : \A k \in DOMAIN registry[n] :
        LET sub == registry[n][k]
            others == {j \in DOMAIN registry[n] :
                        /\ j # k
                        /\ registry[n][j].handler.v = sub.handler.v
                        /\ registry[n][j].context = sub.context}
        IN  (sub.handler.w # 0 /\ Callable(sub.handler.v) /\ others = {}) =>
                sub.id \notin AllIds(offResult(registry, n, Plain(sub.handler.v),
                                              sub.handler.c).registry)

\* C8: every name that is a key of the registry has a non-empty sequence.
C8_NoEmptySequence ==
    \A n \in DOMAIN registry : Len(registry[n]) > 0

\* C8 witness: a once-wrapper that was the last subscription of its name has
\* removed itself during a dispatch, and the name is no longer a key.
C8_Witness ==
    \E i \in DOMAIN stack :
        /\ stack[i].cur # <<>>
        /\ stack[i].cur[1].sub.handler.w # 0
        /\ stack[i].name \notin DOMAIN registry

\* C9: invoking the token of an on or once call removes exactly the
\* subscription that call created: the registry afterwards is the registry
\* before with that entry deleted (here: tokens whose subscription is still
\* registered, in registries that hold functions only).
C9_TokenRemovesItsOwnSubscription ==
    FunctionsOnly =>
        \A i \in AllIds(registry) :
            Content(offResult(registry, tokens[i].name, tokens[i].handler,
                              tokens[i].context).registry)
                = Content(WithoutId(registry, i))

\* C10: invoking a token a second time raises no error and leaves the
\* registry as the first invocation left it.
C10_SecondTokenCallIsNoOp ==
    \A i \in DOMAIN tokens :
        LET t == tokens[i]
            first == offResult(registry, t.name, t.handler, t.context)
            second == offResult(first.registry, t.name, t.handler, t.context)
        IN  ~first.err => (~second.err /\ second.registry = first.registry)

\* The matching rule of off as the specification states it: the stored
\* context equals the context argument, and the stored handler is the handler
\* argument or a once-wrapper whose original is the handler argument.
MatchingRule(sub, handler, context) ==
    /\ LooseEq(sub.context, DefaultNull(context))
    /\ \/ HandlerEq(sub.handler, handler)
       \/ sub.handler.w # 0 /\ HandlerEq(Plain(sub.handler.v), handler)

\* C11: whatever the handler and context arguments (omitted ones included),
\* the subscription that off(name, handler, context) removes satisfies the
\* matching rule; one registered with another handler or context stays.
C11_OffRemovesOnlyMatches ==
    \A n \in Names, h \in HandlerValues, c \in ContextValues :
        LET r == offResult(registry, n, Plain(h), c)
            subs == Subs(registry, n)
        IN  \A k \in DOMAIN subs :
                subs[k].id = r.rem => MatchingRule(subs[k], Plain(h), c)

\* emit(n) raises before any handler is called: what it reads under n is
\* neither an array nor undefined, and has no forEach.
EmitLookupRaises(n) == Lookup(registry, n) = "function"

\* C12: off(name, handler, context) with a function as handler, when no
\* subscription of the name satisfies the matching rule, and emit(name) when
\* the name has no subscription, raise no error and leave the registry as it
\* was (here: in registries that hold functions only).
C12_NoMatchIsSilentNoOp ==
    FunctionsOnly =>
        /\ \A n \in Names, h \in Functions, c \in ContextValues :
              LET r == offResult(registry, n, Plain(h), c)
                  subs == Subs(registry, n)
              IN  (\A k \in DOMAIN subs : ~MatchingRule(subs[k], Plain(h), c))
                      => (~r.err /\ r.registry = registry)
        /\ \A n \in Names :
              Subs(registry, n) = <<>> =>
                  /\ ~EmitLookupRaises(n)
                  /\ forEach(registry, NewFrame(registry, n, <<>>)).outcome = "done"
                  /\ forEach(registry, NewFrame(registry, n, <<>>)).registry = registry

\* The ids of f's snapshot that stand before id.
Before(f, id) ==
    {f.snap[j] : j \in {j \in DOMAIN f.snap :
                          \E q \in DOMAIN f.snap : j < q /\ f.snap[q] = id}}

\* C13: when the handler that an emit is calling raises, and no handler of
\* this dispatch called on, once, off, emit or a token, the emit call ends
\* there (its frame is left, no further handler is called), the registry is
\* what it was, and every subscription that stood before the failing one in
\* the sequence when the emit started has been invoked.
C13_RaiseAbortsDispatch ==
    [][(throw /\ ~stack[Len(stack)].dirty) =>
          LET f == stack[Len(stack)]
          IN  /\ registry' = registry
              /\ stack' = SubSeq(stack, 1, Len(stack) - 1)
              /\ Before(f, f.cur[1].sub.id) \subseteq Range(f.inv)]_vars

\* C14: off and the tokens raise no error whatever handler value is passed
\* or stored (here: for names that Object.prototype does not define).
C14_OffNeverRaises ==
    /\ \A n \in Names \ Inherited, h \in HandlerValues, c \in ContextValues :
          ~offResult(registry, n, Plain(h), c).err
    /\ \A i \in DOMAIN tokens :
          tokens[i].name \notin Inherited =>
              ~offResult(registry, tokens[i].name, tokens[i].handler,
                         tokens[i].context).err

\* C15: the token that once returned, invoked while the wrapper is
\* registered, removes the wrapper's subscription and nothing else; invoked
\* when the wrapper is gone, it leaves the registry as it is; it raises no
\* error in either case.
C15_OnceTokenRemovesWrapper ==
    \A i \in DOMAIN tokens :
        IsOnce(i) =>
            LET t == tokens[i]
                r == offResult(registry, t.name, t.handler, t.context)
            IN  /\ ~r.err
                /\ r.registry = WithoutId(registry, i)

\* C16: in an emit call whose handlers call none of on, off, once, emit, the
\* self-removal of a once-wrapper (a removal of the subscription being
\* visited) has no effect on the dispatch: every subscription that stood
\* after the wrapper when the emit started is invoked exactly once.
C16_VisitedRemovalKeepsDispatch ==
    [][stack # <<>> =>
        LET f == stack[Len(stack)]
        IN  (EmitReturns(f) /\ ~f.dirty) =>
                \A p, q \in DOMAIN f.snap :
                    (p < q /\ IsOnce(f.snap[p]) /\ f.snap[p] \in Range(f.inv))
                        => Count(f.inv, f.snap[q]) = 1]_vars

\* The ids that frame f's forEach goes on to visit after the running handler
\* returns, as long as the array stays what it is in reg.
Pending(reg, f) ==
    IF f.att /\ f.name \in DOMAIN reg
    THEN LET subs == reg[f.name]
             last == IF f.len < Len(subs) THEN f.len ELSE Len(subs)
         IN  [j \in 1..(IF last > f.k + 1 THEN last - (f.k + 1) ELSE 0) |->
                 subs[f.k + 1 + j].id]
    ELSE <<>>

\* Sequence s without the entries equal to x.
Without(s, x) == SelectSeq(s, LAMBDA y : y # x)

\* The entries of s that frame f's emit found in the sequence when it started.
OfSnapshot(s, f) == SelectSeq(s, LAMBDA y : y \in Range(f.snap))

\* C17: when the running handler of an emit(name) removes, with off or a
\* token, a subscription of the name that this dispatch has not invoked yet,
\* the dispatch goes on to visit, of the subscriptions it started with, those
\* it was going to visit, in the same order, except the removed one.
C17_UnvisitedRemovalSkipsOnlyIt ==
    [][(/\ stack # <<>>
        /\ \/ \E n \in Names, h \in HandlerValues, c \in ContextValues :
                off(n, h, c)
           \/ \E i \in DOMAIN tokens : token(i)) =>
          LET f == stack[Len(stack)]
              g == stack'[Len(stack)]
              gone == AllIds(registry) \ AllIds(registry')
          IN  \A id \in gone :
                  (id \in Range(f.snap) /\ id \notin Range(f.inv)) =>
                      OfSnapshot(Pending(registry', g), f)
                          = Without(OfSnapshot(Pending(registry, f), f), id)]_vars

\* The frames of stk in which the original handler of once registration i is
\* running.
Running(stk, i) ==
    {p \in DOMAIN stk : stk[p].cur # <<>> /\ stk[p].cur[1].sub.id = i}

\* C18: for every once registration: while its original handler runs, the
\* wrapper's subscription is not in the registry; the original starts running
\* only when the wrapper is registered, and a wrapper that left the registry
\* never returns to it, so that the original runs at most once, re-entrant
\* emits included.
C18_OnceOriginalRunsAtMostOnce ==
    [][\A i \in DOMAIN tokens :
          IsOnce(i) =>
              /\ Running(stack', i) # {} => i \notin AllIds(registry')
              /\ Running(stack', i) \ Running(stack, i) # {}
                    => i \in AllIds(registry)
              /\ i \notin AllIds(registry) => i \notin AllIds(registry')
              /\ Cardinality(Running(stack', i)) <= 1]_vars

\* C18 witness: the original handler of a once registration, called by an
\* emit, has itself called emit for the same name, and a handler of that
\* inner emit is running.
C18_Witness ==
    /\ Len(stack) = 2
    /\ stack[1].name = stack[2].name
    /\ stack[1].cur[1].sub.handler.w # 0
    /\ stack[1].cur[1].sub.id \in Range(stack[1].inv)

\* C19: an emit call invokes no subscription that was not in the sequence
\* when it started.
C19_AddedDuringDispatchNotInvoked ==
    \A p \in DOMAIN stack : Range(stack[p].inv) \subseteq Range(stack[p].snap)

\* C20: an emit(name) call makes at most N handler calls, N the length of
\* name's sequence when it started: the k-th call (from 0) is of index k < N,
\* and when the call of index N - 1 returns, forEach ends, whatever the
\* registry holds by then.
C20_EmitInvokesAtMostN ==
    \A p \in DOMAIN stack :
        LET f == stack[p]
        IN  /\ f.len = Len(f.snap)
            /\ f.k < f.len
            /\ Len(f.inv) <= f.k + 1
            /\ f.k + 1 = f.len =>
                  forEach(registry, [f EXCEPT !.k = @ + 1, !.cur = <<>>]).outcome
                      = "done"

\* C20 witness: an emit that started with two subscriptions is making its
\* second call, while the sequence has grown to three by a registration its
\* first handler made.
C20_Witness ==
    /\ Len(stack) = 1
    /\ stack[1].snap = <<1, 2>>
    /\ stack[1].inv = <<1, 2>>
    /\ stack[1].dirty
    /\ stack[1].name \in DOMAIN registry
    /\ IdSeq(registry[stack[1].name]) = <<1, 2, 3>>

====
